---- MODULE Spec2Model ----
(***************************************************************************)
(* Model of server.js, the fake CarShop API: the fixture store, the        *)
(* fakeAuth middleware, the express-validator chains of the two POST       *)
(* routes and the five route handlers, one request at a time through the   *)
(* express middleware stack.                                               *)
(***************************************************************************)
EXTENDS Integers, Sequences, FiniteSets

\* ------------------------------------------------------------------ bounds

\* Date.now() of the model runs over 0..MaxClock (milliseconds).
MaxClock == 2
\* The calendar year may roll over this many times while the server runs.
MaxRollovers == 1
\* The calendar year in which the server process starts.
StartYear == 2025

\* ------------------------------------------------------------- JS values

\* A JSON value of a request body: undefined (key absent), null, a string
\* (a sequence of one-character strings) or an integer number.
Undefined == [t |-> "undefined", s |-> <<>>, n |-> 0]
Null == [t |-> "null", s |-> <<>>, n |-> 0]
Str(cs) == [t |-> "string", s |-> cs, n |-> 0]
Num(k) == [t |-> "number", s |-> <<>>, n |-> k]

Digits == <<"0", "1", "2", "3", "4", "5", "6", "7", "8", "9">>
IsDigit(c) == \E i \in 1..10 : Digits[i] = c
DigitVal(c) == CHOOSE d \in 0..9 : Digits[d + 1] = c

\* String(n) of a JS integer.
RECURSIVE NatToString(_)
NatToString(k) ==
  IF k < 10 THEN <<Digits[k + 1]>>
  ELSE NatToString(k \div 10) \o <<Digits[(k % 10) + 1]>>
NumToString(k) == IF k < 0 THEN <<"-">> \o NatToString(-k) ELSE NatToString(k)

\* express-validator's toString of a field value before a standard validator.
FieldToString(v) ==
  CASE v.t = "string" -> v.s
    [] v.t = "number" -> NumToString(v.n)
    [] OTHER -> <<>>

\* Number(str) of a string of decimal digits.
RECURSIVE ParseDigits(_)
ParseDigits(cs) ==
  IF cs = <<>> THEN 0
  ELSE 10 * ParseDigits(SubSeq(cs, 1, Len(cs) - 1)) + DigitVal(cs[Len(cs)])

AllDigits(cs) == \A i \in 1..Len(cs) : IsDigit(cs[i])

\* validator.js isInt(str, {min, max}): /^(?:[-+]?(?:0|[1-9][0-9]*))$/ and range.
IsInt(cs, min, max) ==
  LET signed == cs # <<>> /\ cs[1] \in {"-", "+"}
      ds == IF signed THEN SubSeq(cs, 2, Len(cs)) ELSE cs
      val == IF signed /\ cs[1] = "-" THEN -ParseDigits(ds) ELSE ParseDigits(ds)
  IN /\ ds # <<>>
     /\ AllDigits(ds)
     /\ (Len(ds) = 1 \/ ds[1] # "0")
     /\ val >= min
     /\ val <= max

\* validator.js isEmpty negated: the stringified value has length > 0.
NotEmpty(cs) == Len(cs) # 0

\* The character classes of a string: every digit becomes "d".
Shape(cs) == [i \in 1..Len(cs) |-> IF IsDigit(cs[i]) THEN "d" ELSE cs[i]]
DateTimeShape == <<"d","d","d","d","-","d","d","-","d","d","T","d","d",":","d","d">>
WeekDateShape == <<"d","d","d","d","-","W","d","d">>
Field2(cs, i) == ParseDigits(SubSeq(cs, i, i + 1))

\* validator.js isISO8601 on the two forms the model sends: a calendar date
\* and time without offset, YYYY-MM-DDTHH:MM, and a week date, YYYY-Www.
IsISO8601(cs) ==
  \/ /\ Shape(cs) = DateTimeShape
     /\ Field2(cs, 6) \in 1..12
     /\ Field2(cs, 9) \in 1..31
     /\ Field2(cs, 12) \in 0..23
     /\ Field2(cs, 15) \in 0..59
  \/ /\ Shape(cs) = WeekDateShape
     /\ Field2(cs, 7) \in 1..53

\* new Date(str).getHours(): a date-time without offset is local time; a
\* string Date cannot parse gives Invalid Date, whose getHours() is NaN.
GetHours(cs) ==
  IF Shape(cs) = DateTimeShape /\ IsISO8601(cs)
  THEN [nan |-> FALSE, h |-> Field2(cs, 12)]
  ELSE [nan |-> TRUE, h |-> 0]

\* --------------------------------------------------------- fixture store

VARIABLES users, cars, customers, offerings, appointments

Car1 == [id |-> "car-1", make |-> "Honda", model |-> "City", year |-> 2023,
         color |-> "White", licensePlate |-> "MH14XY5678", carType |-> "SEDAN"]
Car2 == [id |-> "car-2", make |-> "Maruti", model |-> "Swift", year |-> 2022,
         color |-> "Red", licensePlate |-> "MH12AB1234", carType |-> "HATCHBACK"]
Cust1 == [id |-> "cust-1", name |-> "John Customer", email |-> "customer@carshop.com",
          phone |-> "9876543210", address |-> "123 Main St, Pune",
          cars |-> <<Car1, Car2>>]
Offering1 == [id |-> "offering-1", name |-> "Premium Wash",
              description |-> "Full exterior and interior cleaning.", durationMins |-> 45,
              prices |-> [HATCHBACK |-> 300, SEDAN |-> 350, SUV |-> 400]]
Offering2 == [id |-> "offering-2", name |-> "Ceramic Coating (3 Year)",
              description |-> "Full body ceramic coating.", durationMins |-> 2880,
              prices |-> [HATCHBACK |-> 20000, SEDAN |-> 25000, SUV |-> 30000]]
Offering3 == [id |-> "offering-3", name |-> "PPF - Full Front",
              description |-> "Paint Protection Film.", durationMins |-> 600,
              prices |-> [HATCHBACK |-> 35000, SEDAN |-> 40000, SUV |-> 45000]]
\* scheduledTime is computed once, at load: three days after the start.
Appt1 == [id |-> "appt-1", scheduledTime |-> "start+3d", status |-> "SCHEDULED",
          totalCost |-> 350, customer |-> Cust1, car |-> Car1, offering |-> Offering1]

UserEmails == {"customer@carshop.com", "employee@carshop.com", "owner@carshop.com"}
InitUsers ==
  [e \in UserEmails |->
     CASE e = "customer@carshop.com" ->
            [id |-> "user-1", name |-> "John Customer", email |-> e,
             role |-> "CUSTOMER", profileId |-> "cust-1"]
       [] e = "employee@carshop.com" ->
            [id |-> "user-2", name |-> "Jane Doe", email |-> e,
             role |-> "EMPLOYEE", profileId |-> "emp-1"]
       [] e = "owner@carshop.com" ->
            [id |-> "user-3", name |-> "Shop Owner", email |-> e,
             role |-> "OWNER", profileId |-> "owner-1"]]
InitCars == [k \in {"car-1", "car-2"} |-> IF k = "car-1" THEN Car1 ELSE Car2]
InitCustomers == [k \in {"cust-1"} |-> Cust1]
InitOfferings == <<Offering1, Offering2, Offering3>>
InitAppointments == <<Appt1>>

store == <<users, cars, customers, offerings, appointments>>

\* Property names every object literal inherits from Object.prototype.
ObjectPrototypeKeys ==
  {"constructor", "__proto__", "toString", "valueOf", "hasOwnProperty"}

\* What reading a fixture field (role, profileId, ...) of an inherited member
\* (a function, or Object.prototype itself) gives: undefined.
InheritedMember == [id |-> "undefined", name |-> "undefined", email |-> "undefined",
                    role |-> "undefined", profileId |-> "undefined"]
NoUser == [id |-> "", name |-> "", email |-> "", role |-> "", profileId |-> ""]

\* obj[key] of a plain JS object: an own property, else a member inherited
\* through the prototype chain (truthy), else undefined.
UsersLookup(obj, key) ==
  IF key \in DOMAIN obj THEN [truthy |-> TRUE, val |-> obj[key]]
  ELSE IF key \in ObjectPrototypeKeys THEN [truthy |-> TRUE, val |-> InheritedMember]
  ELSE [truthy |-> FALSE, val |-> NoUser]

\* customers[profileId]: the same lookup; none of the keys the handler can
\* pass ("cust-1", "emp-1", "owner-1", "undefined") is an inherited name.
NoCustomer == [id |-> "", name |-> "", email |-> "", phone |-> "", address |-> "",
               cars |-> <<>>]
CustomersLookup(obj, key) ==
  IF key \in DOMAIN obj THEN [truthy |-> TRUE, val |-> obj[key]]
  ELSE [truthy |-> key \in ObjectPrototypeKeys, val |-> NoCustomer]

\* ------------------------------------------------------------- requests

GetEndpoints == {"GET /api/profile", "GET /api/profile/appointments", "GET /api/offerings"}
PostEndpoints == {"POST /api/profile/cars", "POST /api/appointments"}

\* req.headers['x-user-email']: absent, or a string.
NoHeader == [present |-> FALSE, value |-> ""]
Header(v) == [present |-> TRUE, value |-> v]
Headers ==
  {NoHeader} \cup
  {Header(v) : v \in UserEmails \cup {"", "nobody@carshop.com", "constructor", "__proto__"}}

Toyota == <<"T","o","y","o","t","a">>
Yaris == <<"Y","a","r","i","s">>
Blue == <<"B","l","u","e">>
Plate == <<"M","H","0","1">>
SUV == <<"S","U","V">>
CarPrefix == <<"c","a","r","-">>
OfferingPrefix == <<"o","f","f","e","r","i","n","g","-">>
DayPrefix == <<"2","0","2","5","-","0","1","-","1","5","T">>
At(hh) == Str(DayPrefix \o hh \o <<":","0","0">>)

EmptyBody ==
  [make |-> Undefined, model |-> Undefined, year |-> Undefined, color |-> Undefined,
   licensePlate |-> Undefined, id |-> Undefined, carType |-> Undefined,
   carId |-> Undefined, offeringId |-> Undefined, scheduledTime |-> Undefined]

MinYear == 1980

Years ==
  {Undefined, Num(MinYear - 1), Num(MinYear), Num(StartYear + 1), Num(StartYear + 2),
   Str(<<"2","0","2","1">>), Str(<<"2","0","2","1",".","5">>), Str(<<"0","2","0","2","1">>)}
ValidYears == {Num(MinYear), Num(StartYear + 1), Num(StartYear + 2), Str(<<"2","0","2","1">>)}
BodyIds == {Undefined, Str(<<>>), Str(CarPrefix \o <<"1">>)}
BodyCarTypes == {Undefined, Str(SUV)}

\* Bodies of POST /api/profile/cars: every combination of present, empty and
\* absent fields with every year; and, on bodies that can pass, the extra
\* keys "id" and "carType".
CarBodies ==
  {[EmptyBody EXCEPT !.make = mk, !.model = md, !.year = y, !.color = c, !.licensePlate = lp] :
     mk \in {Str(<<>>), Str(Toyota)}, md \in {Undefined, Str(Yaris)}, y \in Years,
     c \in {Str(<<>>), Str(Blue)}, lp \in {Undefined, Str(Plate)}}
  \cup
  {[EmptyBody EXCEPT !.make = Str(Toyota), !.model = Str(Yaris), !.year = y,
                     !.color = Str(Blue), !.licensePlate = Str(Plate),
                     !.id = i, !.carType = ct] :
     y \in ValidYears, i \in BodyIds, ct \in BodyCarTypes}

ScheduledTimes ==
  {Undefined, Str(<<"s","o","o","n">>), At(<<"2","5">>), Str(<<"2","0","2","5","-","W","0","3">>),
   At(<<"0","9">>), At(<<"1","0">>), At(<<"1","1">>), At(<<"1","2">>), At(<<"1","3">>)}

\* Bodies of POST /api/appointments.
AppointmentBodies ==
  {[EmptyBody EXCEPT !.carId = ci, !.offeringId = oi, !.scheduledTime = st] :
     ci \in {Undefined, Str(CarPrefix \o <<"1">>)},
     oi \in {Str(<<>>), Str(OfferingPrefix \o <<"1">>), Str(OfferingPrefix \o <<"2">>)},
     st \in ScheduledTimes}

Bodies(ep) ==
  CASE ep = "POST /api/profile/cars" -> CarBodies
    [] ep = "POST /api/appointments" -> AppointmentBodies
    [] OTHER -> {EmptyBody}

ValidCarBody ==
  [EmptyBody EXCEPT !.make = Str(Toyota), !.model = Str(Yaris), !.year = Num(MinYear),
                    !.color = Str(Blue), !.licensePlate = Str(Plate)]
BusyBooking ==
  [EmptyBody EXCEPT !.carId = Str(CarPrefix \o <<"1">>),
                    !.offeringId = Str(OfferingPrefix \o <<"1">>),
                    !.scheduledTime = At(<<"1","1">>)]

\* Two bodies per route, sent under every header.
ProbeBodies(ep) ==
  CASE ep = "POST /api/profile/cars" -> {ValidCarBody, EmptyBody}
    [] ep = "POST /api/appointments" -> {BusyBooking, EmptyBody}
    [] OTHER -> {EmptyBody}

\* The headers every body is sent under: a fixture user, and a name that
\* users inherits from Object.prototype.
BodyHeaders == {Header("customer@carshop.com"), Header("employee@carshop.com"),
                Header("constructor")}

Endpoints == GetEndpoints \cup PostEndpoints
Request(ep, h, b) == [endpoint |-> ep, header |-> h, body |-> b]
Requests ==
  UNION {{Request(ep, h, b) : h \in Headers, b \in ProbeBodies(ep)} : ep \in Endpoints}
  \cup
  UNION {{Request(ep, h, b) : h \in BodyHeaders, b \in Bodies(ep)} : ep \in PostEndpoints}

\* The requests of the runs that compare one exchange with an earlier one.
RepeatRequests ==
  {Request(ep, h, EmptyBody) : ep \in GetEndpoints, h \in Headers}
  \cup
  {Request("POST /api/profile/cars", Header("customer@carshop.com"), b) :
     b \in {EmptyBody} \cup {[ValidCarBody EXCEPT !.id = i] : i \in BodyIds}}
  \cup
  {Request("POST /api/appointments", Header("customer@carshop.com"), b) :
     b \in {EmptyBody, BusyBooking, [BusyBooking EXCEPT !.scheduledTime = At(<<"0","9">>)]}}
NoRequest == [endpoint |-> "", header |-> NoHeader, body |-> EmptyBody]

\* ---------------------------------------------------------------- state

VARIABLES
  now,        \* Date.now(), in milliseconds since the start
  year,       \* new Date().getFullYear()
  yearMax,    \* the max of the year rule, computed when the route is registered
  req,        \* the request in the middleware stack
  pc,         \* the middleware that runs next for req
  user,       \* req.user
  errors,     \* validationResult(req).array()
  responses,  \* what res.json has sent for req, in order
  seen        \* one earlier exchange, kept to compare later ones with

vars == <<users, cars, customers, offerings, appointments,
          now, year, yearMax, req, pc, user, errors, responses, seen>>

NothingSeen == [kind |-> "none", endpoint |-> "", header |-> NoHeader, res |-> <<>>]

Response(st, kind, body) == [status |-> st, kind |-> kind, body |-> body]
Message(st, text) == Response(st, "message", text)

Init ==
  /\ users = InitUsers
  /\ cars = InitCars
  /\ customers = InitCustomers
  /\ offerings = InitOfferings
  /\ appointments = InitAppointments
  /\ now = 0
  /\ year = StartYear
  /\ yearMax = StartYear + 1
  /\ req = NoRequest
  /\ pc = "idle"
  /\ user = NoUser
  /\ errors = <<>>
  /\ responses = <<>>
  /\ seen = NothingSeen

\* ------------------------------------------------------------ validation

NotEmptyChain(f, m) == [field |-> f, check |-> "notEmpty", min |-> 0, max |-> 0, msg |-> m]
IsIntChain(f, lo, hi, m) == [field |-> f, check |-> "isInt", min |-> lo, max |-> hi, msg |-> m]
IsISO8601Chain(f, m) == [field |-> f, check |-> "isISO8601", min |-> 0, max |-> 0, msg |-> m]

\* The validation chains of POST /api/profile/cars, in declaration order.
CarChains(hi) ==
  << NotEmptyChain("make", "Make is required"),
     NotEmptyChain("model", "Model is required"),
     IsIntChain("year", MinYear, hi, "Please enter a valid year"),
     NotEmptyChain("color", "Color is required"),
     NotEmptyChain("licensePlate", "License plate is required") >>

\* The validation chains of POST /api/appointments, in declaration order.
AppointmentChains ==
  << NotEmptyChain("carId", "Car selection is required"),
     NotEmptyChain("offeringId", "Service selection is required"),
     IsISO8601Chain("scheduledTime", "A valid date and time is required") >>

ChainPasses(c, body) ==
  LET str == FieldToString(body[c.field])
  IN CASE c.check = "notEmpty" -> NotEmpty(str)
       [] c.check = "isInt" -> IsInt(str, c.min, c.max)
       [] c.check = "isISO8601" -> IsISO8601(str)

\* Variant: validation stops at the first chain that fails.
RECURSIVE RunChainsBail(_, _)
RunChainsBail(chains, body) ==
  IF chains = <<>> THEN <<>>
  ELSE IF ChainPasses(Head(chains), body) THEN RunChainsBail(Tail(chains), body)
  ELSE <<[field |-> Head(chains).field, msg |-> Head(chains).msg]>>

\* Each chain is a middleware of its own: it runs whatever the earlier ones
\* found and adds its error, if any, to the request's validation context.
RECURSIVE RunChains(_, _)
RunChains(chains, body) ==
  IF chains = <<>> THEN <<>>
  ELSE (IF ChainPasses(Head(chains), body) THEN <<>>
        ELSE <<[field |-> Head(chains).field, msg |-> Head(chains).msg]>>)
       \o RunChains(Tail(chains), body)

\* -------------------------------------------------------------- handlers

\* Variant: carType: null written before the spread, so the body's wins.
NewCarTypeFirst(t, body) ==
  [id |-> IF body.id.t # "undefined" THEN body.id ELSE Str(CarPrefix \o NumToString(t)),
   make |-> body.make, model |-> body.model, year |-> body.year,
   color |-> body.color, licensePlate |-> body.licensePlate,
   carType |-> IF body.carType.t # "undefined" THEN body.carType ELSE Null]

\* { id: `car-${Date.now()}`, ...req.body, carType: null }: a key of the
\* body replaces the same key written before the spread, and a key written
\* after the spread replaces the body's.
NewCar(t, body) ==
  [id |-> IF body.id.t # "undefined" THEN body.id ELSE Str(CarPrefix \o NumToString(t)),
   make |-> body.make, model |-> body.model, year |-> body.year,
   color |-> body.color, licensePlate |-> body.licensePlate,
   carType |-> Null]

\* Variant: the window excludes its last hour (hour < 12).
SlotConflictOpenEnd(body) ==
  /\ body.offeringId = Str(OfferingPrefix \o <<"1">>)
  /\ LET hour == GetHours(FieldToString(body.scheduledTime))
     IN ~hour.nan /\ hour.h >= 10 /\ hour.h < 12

\* req.body.offeringId === "offering-1", then 10 <= getHours() <= 12
\* (every comparison with NaN is false).
SlotConflict(body) ==
  /\ body.offeringId = Str(OfferingPrefix \o <<"1">>)
  /\ LET hour == GetHours(FieldToString(body.scheduledTime))
     IN ~hour.nan /\ hour.h >= 10 /\ hour.h <= 12

\* Variant: the customer lookup comes before the role check.
ProfileResponseLookupFirst(u, custs) ==
  LET customerProfile == CustomersLookup(custs, u.profileId)
  IN IF ~customerProfile.truthy
     THEN Message(404, "Customer profile not found.")
     ELSE IF u.role # "CUSTOMER"
     THEN Message(403, "Forbidden: Only customers can access this profile.")
     ELSE Response(200, "customer", customerProfile.val)


ProfileResponse(u, custs) ==
  IF u.role # "CUSTOMER"
  THEN Message(403, "Forbidden: Only customers can access this profile.")
  ELSE LET customerProfile == CustomersLookup(custs, u.profileId)
       IN IF ~customerProfile.truthy
          THEN Message(404, "Customer profile not found.")
          ELSE Response(200, "customer", customerProfile.val)

\* Variant: only the caller's own appointments are returned.
AppointmentsResponseOwn(u, appts) ==
  Response(200, "appointments", SelectSeq(appts, LAMBDA a : a.customer.id = u.profileId))


AppointmentsResponse(u, appts) == Response(200, "appointments", appts)

OfferingsResponse(u, offs) == Response(200, "offerings", offs)

CarsResponse(errs, t, body) ==
  IF errs # <<>> THEN Response(400, "errors", errs)
  ELSE Response(201, "car", NewCar(t, body))

BookingResponse(errs, body) ==
  IF errs # <<>> THEN Response(400, "errors", errs)
  ELSE IF SlotConflict(body)
  THEN Message(400, "The selected time slot is unavailable. Please choose another time.")
  ELSE Message(201, "Appointment booked successfully!")

\* --------------------------------------------------------------- actions

\* The clock advances by a millisecond; the year may change with it.
Tick(rollover) ==
  /\ now < MaxClock
  /\ rollover => year < StartYear + MaxRollovers
  /\ now' = now + 1
  /\ year' = IF rollover THEN year + 1 ELSE year
  /\ UNCHANGED <<store, yearMax, req, pc, user, errors, responses, seen>>

\* What the exchange just finished leaves to compare later ones with: a GET
\* with its response, or the id of a car a 201 returned.
Exchange ==
  IF pc # "done" \/ responses = <<>> THEN NothingSeen
  ELSE IF req.endpoint \in GetEndpoints
  THEN [kind |-> "get", endpoint |-> req.endpoint, header |-> req.header, res |-> responses]
  ELSE IF responses[1].kind = "car"
  THEN [kind |-> "car", endpoint |-> req.endpoint, header |-> NoHeader,
        res |-> <<responses[1].body.id>>]
  ELSE NothingSeen

\* A request arrives once the previous one has been answered.
Receive(r, keep) ==
  /\ pc \in {"idle", "done"}
  /\ req' = r
  /\ pc' = "fakeAuth"
  /\ user' = NoUser
  /\ errors' = <<>>
  /\ responses' = <<>>
  /\ seen' = IF keep /\ Exchange.kind # "none" THEN Exchange ELSE seen
  /\ UNCHANGED <<store, now, year, yearMax>>

\* fakeAuth: 401 unless the header is truthy and users[header] is truthy.
FakeAuth ==
  /\ pc = "fakeAuth"
  /\ LET userEmail == req.header
         found == UsersLookup(users, userEmail.value)
     IN IF ~userEmail.present \/ userEmail.value = "" \/ ~found.truthy
        THEN /\ responses' = Append(responses,
                   Message(401, "Unauthorized: Please provide a valid 'x-user-email' header."))
             /\ pc' = "done"
             /\ UNCHANGED user
        ELSE /\ user' = found.val
             /\ pc' = IF req.endpoint \in PostEndpoints THEN "validators" ELSE "handler"
             /\ UNCHANGED responses
  /\ UNCHANGED <<store, now, year, yearMax, req, errors, seen>>

\* The body(...) chains of the route, in order.
Validators ==
  /\ pc = "validators"
  /\ errors' = IF req.endpoint = "POST /api/profile/cars"
               THEN RunChains(CarChains(yearMax), req.body)
               ELSE RunChains(AppointmentChains, req.body)
  /\ pc' = "handler"
  /\ UNCHANGED <<store, now, year, yearMax, req, user, responses, seen>>

GetProfile ==
  /\ pc = "handler" /\ req.endpoint = "GET /api/profile"
  /\ responses' = Append(responses, ProfileResponse(user, customers))
  /\ pc' = "done"
  /\ UNCHANGED <<store, now, year, yearMax, req, user, errors, seen>>

GetProfileAppointments ==
  /\ pc = "handler" /\ req.endpoint = "GET /api/profile/appointments"
  /\ responses' = Append(responses, AppointmentsResponse(user, appointments))
  /\ pc' = "done"
  /\ UNCHANGED <<store, now, year, yearMax, req, user, errors, seen>>

GetOfferings ==
  /\ pc = "handler" /\ req.endpoint = "GET /api/offerings"
  /\ responses' = Append(responses, OfferingsResponse(user, offerings))
  /\ pc' = "done"
  /\ UNCHANGED <<store, now, year, yearMax, req, user, errors, seen>>

\* Variant: the new car is saved on the customer's profile.
PostProfileCarsSaving ==
  /\ pc = "handler" /\ req.endpoint = "POST /api/profile/cars"
  /\ responses' = Append(responses, CarsResponse(errors, now, req.body))
  /\ pc' = "done"
  /\ customers' = IF errors = <<>>
                  THEN [customers EXCEPT !["cust-1"].cars = Append(@, [Car1 EXCEPT !.id = "car-3"])]
                  ELSE customers
  /\ UNCHANGED <<users, cars, offerings, appointments, now, year, yearMax, req, user,
                 errors, seen>>


PostProfileCars ==
  /\ pc = "handler" /\ req.endpoint = "POST /api/profile/cars"
  /\ responses' = Append(responses, CarsResponse(errors, now, req.body))
  /\ pc' = "done"
  /\ UNCHANGED <<store, now, year, yearMax, req, user, errors, seen>>

PostAppointments ==
  /\ pc = "handler" /\ req.endpoint = "POST /api/appointments"
  /\ responses' = Append(responses, BookingResponse(errors, req.body))
  /\ pc' = "done"
  /\ UNCHANGED <<store, now, year, yearMax, req, user, errors, seen>>

Next ==
  \/ \E rollover \in BOOLEAN : Tick(rollover)
  \/ \E r \in Requests : Receive(r, FALSE)
  \/ FakeAuth
  \/ Validators
  \/ GetProfile
  \/ GetProfileAppointments
  \/ GetOfferings
  \/ PostProfileCars
  \/ PostAppointments

Spec == Init /\ [][Next]_vars

\* The same server, watched over several exchanges: any earlier exchange may
\* be the one kept for comparison.
NextRepeat ==
  \/ Tick(FALSE)
  \/ \E r \in RepeatRequests, keep \in BOOLEAN : Receive(r, keep)
  \/ FakeAuth
  \/ Validators
  \/ GetProfile
  \/ GetProfileAppointments
  \/ GetOfferings
  \/ PostProfileCars
  \/ PostAppointments

SpecRepeat == Init /\ [][NextRepeat]_vars

\* ------------------------------------------------------------ properties

Answered == pc = "done" /\ Len(responses) = 1
Res == responses[1]
\* The header names one of the three fixture users.
KnownUser(h) == h.present /\ h.value \in UserEmails
\* fakeAuth called next(): req.user is set.
PassedGate == user # NoUser
Unauthorized401 == Message(401, "Unauthorized: Please provide a valid 'x-user-email' header.")
Blank(v) == v = Undefined \/ v = Str(<<>>)

\* C1: a request whose x-user-email header is absent, empty or not the
\* email of a fixture user is answered 401 on every endpoint, and neither
\* the validators nor a route handler run for it.
C1_UnknownHeaderIs401 ==
  (req # NoRequest /\ ~KnownUser(req.header)) =>
     /\ pc \notin {"validators", "handler"}
     /\ errors = <<>>
     /\ pc = "done" => responses = <<Unauthorized401>>

\* C2: GET /api/profile answers an identity that passed the gate 403 when
\* its role is not CUSTOMER, else 404 when its profileId has no Customer,
\* else 200 with the Customer record; with the fixtures the customer gets
\* cust-1 with car-1 and car-2, employee and owner get 403, nobody gets 404.
C2_ProfileDecision ==
  (Answered /\ req.endpoint = "GET /api/profile" /\ PassedGate) =>
     /\ user.role # "CUSTOMER" =>
          Res = Message(403, "Forbidden: Only customers can access this profile.")
     /\ (user.role = "CUSTOMER" /\ user.profileId \notin DOMAIN customers) =>
          Res = Message(404, "Customer profile not found.")
     /\ (user.role = "CUSTOMER" /\ user.profileId \in DOMAIN customers) =>
          /\ Res.status = 200 /\ Res.kind = "customer"
          /\ Res.body = customers[user.profileId]
     /\ req.header = Header("customer@carshop.com") =>
          /\ Res.status = 200 /\ Res.kind = "customer"
          /\ Res.body.id = "cust-1" /\ Res.body.cars = <<Car1, Car2>>
     /\ req.header \in {Header("employee@carshop.com"), Header("owner@carshop.com")} =>
          Res.status = 403
     /\ Res.status # 404
C2_Witness ==
  /\ Answered /\ req.endpoint = "GET /api/profile"
  /\ req.header = Header("customer@carshop.com")
  /\ Res.status = 200

\* The rule names of POST /api/profile/cars in declaration order, and which of
\* them a body violates when the current year is y.
CarRules == <<"make", "model", "year", "color", "licensePlate">>
YearInRange(v, y) ==
  \/ v.t = "number" /\ v.n >= 1980 /\ v.n <= y + 1
  \/ v = Str(<<"2","0","2","1">>) /\ 2021 <= y + 1
ViolatesCarRule(f, body, y) ==
  IF f = "year" THEN ~YearInRange(body.year, y) ELSE Blank(body[f])
ViolatedCarRules(body, y) ==
  SelectSeq(CarRules, LAMBDA f : ViolatesCarRule(f, body, y))
ErrorFields(errs) == [i \in 1..Len(errs) |-> errs[i].field]

\* C3: for a POST /api/profile/cars that passed the gate, validation leaves
\* exactly one error per violated rule (make, model, color, licensePlate
\* non-empty; year an integer in 1980..currentYear+1), in declaration order,
\* and the response is the 400 errors list exactly when that list is non-empty.
C3_OneErrorPerViolatedRule ==
  /\ [][(pc = "validators" /\ pc' = "handler" /\ req.endpoint = "POST /api/profile/cars")
          => ErrorFields(errors') = ViolatedCarRules(req.body, year)]_vars
  /\ []((Answered /\ req.endpoint = "POST /api/profile/cars" /\ PassedGate) =>
          IF errors # <<>> THEN Res = Response(400, "errors", errors)
          ELSE Res.status = 201)

\* C4: every 201 of POST /api/profile/cars carries a non-empty id that the
\* server generated (not one taken from the body) and that differs from the
\* id of every earlier 201.
C4_FreshUniqueId ==
  (Answered /\ Res.kind = "car") =>
     /\ Res.body.id.t = "string" /\ Res.body.id.s # <<>>
     /\ req.body.id = Undefined
     /\ seen.kind = "car" => seen.res[1] # Res.body.id

\* C5: every 201 of POST /api/profile/cars has carType null, whatever the
\* body holds, and echoes make, model, year, color and licensePlate unchanged.
C5_CarTypeNullAndEcho ==
  (Answered /\ req.endpoint = "POST /api/profile/cars" /\ Res.status = 201) =>
     /\ Res.kind = "car"
     /\ Res.body.carType = Null
     /\ \A f \in {"make", "model", "year", "color", "licensePlate"} :
          Res.body[f] = req.body[f]
C5_Witness ==
  /\ Answered /\ req.endpoint = "POST /api/profile/cars" /\ Res.status = 201
  /\ req.body.carType = Str(SUV)

\* The payloads of POST /api/appointments that pass validation, and the
\* times of them whose local hour is 10, 11 or 12.
ParseableTimes ==
  {At(<<"0","9">>), At(<<"1","0">>), At(<<"1","1">>), At(<<"1","2">>), At(<<"1","3">>),
   Str(<<"2","0","2","5","-","W","0","3">>)}
BusyTimes == {At(<<"1","0">>), At(<<"1","1">>), At(<<"1","2">>)}
ValidBooking(body) ==
  ~Blank(body.carId) /\ ~Blank(body.offeringId) /\ body.scheduledTime \in ParseableTimes
SlotUnavailable ==
  Message(400, "The selected time slot is unavailable. Please choose another time.")
Booked == Message(201, "Appointment booked successfully!")

\* C6: a POST /api/appointments that passed the gate and validation gets the
\* 400 slot-conflict message exactly when offeringId is "offering-1" and the
\* local hour is 10, 11 or 12, and 201 "Appointment booked successfully!" in
\* every other case.
C6_SlotConflictWindow ==
  (Answered /\ req.endpoint = "POST /api/appointments" /\ PassedGate
     /\ ValidBooking(req.body)) =>
     IF req.body.offeringId = Str(OfferingPrefix \o <<"1">>)
        /\ req.body.scheduledTime \in BusyTimes
     THEN Res = SlotUnavailable
     ELSE Res = Booked
C6_Witness ==
  /\ Answered /\ req.endpoint = "POST /api/appointments"
  /\ req.body.offeringId = Str(OfferingPrefix \o <<"1">>)
  /\ req.body.scheduledTime = At(<<"1","2">>)
  /\ Res = SlotUnavailable

\* C7: a POST /api/appointments that passed the gate with a scheduledTime
\* that is not ISO-8601 gets 400 with an errors list holding an entry for
\* scheduledTime, whatever carId and offeringId are.
C7_ScheduledTimeError ==
  (Answered /\ req.endpoint = "POST /api/appointments" /\ PassedGate
     /\ req.body.scheduledTime \notin ParseableTimes) =>
     /\ Res.status = 400 /\ Res.kind = "errors"
     /\ \E i \in 1..Len(Res.body) : Res.body[i].field = "scheduledTime"
C7_Witness ==
  /\ Answered /\ req.endpoint = "POST /api/appointments" /\ PassedGate
  /\ req.body.scheduledTime = Str(<<"s","o","o","n">>)
  /\ Blank(req.body.carId) /\ Blank(req.body.offeringId)
  /\ Len(Res.body) = 3

\* C8: no request changes the fixture store, and a GET answered after an
\* identical earlier GET gets the identical response.
C8_StoreUnchanged ==
  /\ users = InitUsers /\ cars = InitCars /\ customers = InitCustomers
  /\ offerings = InitOfferings /\ appointments = InitAppointments
  /\ (Answered /\ seen.kind = "get" /\ seen.endpoint = req.endpoint
        /\ seen.header = req.header) => responses = seen.res
C8_Witness ==
  /\ Answered /\ req.endpoint = "GET /api/profile"
  /\ seen.kind = "car"
  /\ Res.status = 200

\* C9: GET /api/offerings answers every identity that passed the gate 200
\* with the three fixture offerings in fixture order, and GET
\* /api/profile/appointments answers 200 with the whole appointment
\* collection, whoever the caller is.
C9_SameForEveryCaller ==
  (Answered /\ PassedGate) =>
     /\ req.endpoint = "GET /api/offerings" =>
          /\ Res.status = 200 /\ Res.kind = "offerings"
          /\ Res.body = <<Offering1, Offering2, Offering3>>
     /\ req.endpoint = "GET /api/profile/appointments" =>
          /\ Res.status = 200 /\ Res.kind = "appointments"
          /\ Res.body = appointments
C9_Witness ==
  /\ Answered /\ req.endpoint = "GET /api/profile/appointments"
  /\ req.header = Header("employee@carshop.com")
  /\ Res.status = 200 /\ Len(Res.body) = 1

\* C10: a request gets exactly one response, from the first stage that
\* fails in the order gate, validation, slot conflict, success: a POST with
\* an invalid body from a caller who is not a fixture user gets 401 and not
\* 400, and a booking that fails validation gets the errors list even when
\* offering-1 is asked for at a busy hour.
C10_FirstFailingStage ==
  /\ Len(responses) <= 1
  /\ pc = "done" => Len(responses) = 1
  /\ (Answered /\ req.endpoint \in PostEndpoints /\ ~KnownUser(req.header)
        /\ req.body = EmptyBody) => Res = Unauthorized401
  /\ (Answered /\ req.endpoint = "POST /api/appointments" /\ KnownUser(req.header)
        /\ ~ValidBooking(req.body)) => (Res.status = 400 /\ Res.kind = "errors")

====
